---------------------------- MODULE Spec2Model ----------------------------
(***************************************************************************)
(* A model of transortable/admin.py: the admin glue between a translation  *)
(* layer (hvad) and a sortable-admin layer (adminsortable).                *)
(*                                                                         *)
(*   SpecSort        the rows of a sortable model and do_sorting_view      *)
(*   SpecChangelist  the rows of a sortable model and changelist_view      *)
(*   SpecConcurrent  two do_sorting_view requests served side by side,     *)
(*                   one database statement at a time                      *)
(*   SpecTrans       the translations of translatable masters and          *)
(*                   delete_translation                                    *)
(*   SpecInline      the translations and InlineModelForm.__init__         *)
(*   SpecForm        get_form of the admin and of the inline admin         *)
(*   SpecTabs        get_language_tabs                                     *)
(*   SpecQueryset    TranslatableAdmin.queryset                            *)
(*                   (each applied to requests, settings and arguments     *)
(*                   drawn from bounded sets)                              *)
(*                                                                         *)
(* Python's None is modelled as the empty sequence and a present value v   *)
(* as <<v>>, so that "x or d" and Python 2's ordering of None below every  *)
(* integer are computed as the interpreter computes them.                  *)
(***************************************************************************)
EXTENDS Integers, Sequences, FiniteSets, TLC

VARIABLES
    objects,                \* sortable rows in the database: pk -> order
    desc,                   \* '-order' in klass._meta.ordering
    change_list_template,   \* SortableAdmin instance attribute
    is_sortable,            \* SortableAdmin instance attribute
    sortCall,               \* the last call on the sortable admin, with its outcome
    inflight,               \* do_sorting_view requests being served side by side
    translations,           \* translation rows: master -> (language_code -> title)
    transCall,              \* the last call on the translatable admin, with its outcome
    settings,               \* LANGUAGES and FALLBACK_LANGUAGES
    adminCall               \* the last get_form / get_language_tabs / queryset call

sortVars  == <<objects, desc, change_list_template, is_sortable, sortCall, inflight>>
transVars == <<translations, transCall>>
adminVars == <<settings, adminCall>>
vars      == <<objects, desc, change_list_template, is_sortable, sortCall, inflight,
               translations, transCall, settings, adminCall>>

----------------------------------------------------------------------------
(* Bounds *)

MaxPk == 3          \* primary keys are 1..MaxPk
MaxLen == 2         \* at most MaxLen keys in a posted 'indexes'
MaxOrder == 1       \* new rows get an order in 0..MaxOrder
OrderSlack == 1     \* reorders are followed while orders stay in -OrderSlack..MaxOrder+OrderSlack
MaxMaster == 1      \* translatable masters are 1..MaxMaster
MaxTitle == 2       \* a translation's title is in 1..MaxTitle
MaxFallback == 3    \* FALLBACK_LANGUAGES has at most MaxFallback entries

----------------------------------------------------------------------------
(* Python values *)

None == <<>>
Some(v) == <<v>>

\* Python's "x or d" for x an integer or None: d when x is None or 0.
PyOr(x, d) == IF x = None \/ x = Some(0) THEN d ELSE x[1]

\* Python 2 orders None below every integer.
PyLeq(a, b) == a = None \/ (b # None /\ a[1] <= b[1])

\* min(values, key=order) and max(values, key=order), as the order they hold.
PyMin(S) == CHOOSE a \in S : \A b \in S : PyLeq(a, b)
PyMax(S) == CHOOSE a \in S : \A b \in S : PyLeq(b, a)

\* d.update(u) of dictionaries
DictUpdate(d, u) ==
    [k \in DOMAIN d \cup DOMAIN u |-> IF k \in DOMAIN u THEN u[k] ELSE d[k]]

Range(s) == {s[i] : i \in 1..Len(s)}

SeqsUpTo(S, n) == UNION {[1..k -> S] : k \in 0..n}

NoDup(s) == \A i, j \in 1..Len(s) : i # j => s[i] # s[j]

----------------------------------------------------------------------------
(* The sortable admin *)

Pks == 1..MaxPk
NewOrders == {None} \cup {Some(v) : v \in 0..MaxOrder}
OrderRange == (0 - OrderSlack)..(MaxOrder + OrderSlack)

Templates == {"default", "change_list_with_sort_link"}

NoSortCall ==
    [op |-> "none", is_ajax |-> FALSE, method |-> "GET",
     indexes |-> None, response |-> "none", before |-> <<>>, template |-> "default"]

\* Requests are served one after the other: a view is entered when no call is
\* being answered.
Idle == sortCall.op = "none"

\* The view returns its response; the admin waits for the next request.
Respond ==
    /\ ~Idle
    /\ sortCall' = NoSortCall
    /\ UNCHANGED <<objects, desc, change_list_template, is_sortable, inflight>>

\* request.is_ajax() and request.method == 'POST'
IsAjaxPostBug(is_ajax, method) == is_ajax \/ method = "POST"
IsAjaxPost(is_ajax, method) == is_ajax /\ method = "POST"

\* The start index and the step of the resequencing: from the largest order
\* downwards for a descending model, from the smallest upwards otherwise.
StartIndexNoFallback(descending, values, n) ==
    IF descending THEN PyOr(PyMax(values), 0) ELSE PyOr(PyMin(values), 0)
StartIndexFromOne(descending, values, n) ==
    IF descending THEN PyOr(PyMax(values), n) ELSE PyOr(PyMin(values), 1)
StartIndex(descending, values, n) ==
    IF descending THEN PyOr(PyMax(values), n) ELSE PyOr(PyMin(values), 0)

StepNone(descending) == 0
Step(descending) == IF descending THEN 0 - 1 ELSE 1

\* for index in indexes: obj = objects_dict.get(index); obj.order = start_index;
\* obj.save(); start_index += step.  A key without a row gives None, and setting
\* an attribute of None raises AttributeError after the earlier rows were saved.
RECURSIVE SaveLoopThenRest(_, _, _, _, _)
SaveLoopThenRest(objs, keys, indexes, start_index, step) ==
    IF indexes = <<>>
    THEN [objects |-> [k \in DOMAIN objs |->
                          IF k \in keys THEN objs[k] ELSE Some(start_index)],
          raised |-> FALSE]
    ELSE IF Head(indexes) \notin keys THEN [objects |-> objs, raised |-> TRUE]
    ELSE SaveLoopThenRest([objs EXCEPT ![Head(indexes)] = Some(start_index)], keys,
                          Tail(indexes), start_index + step, step)
RECURSIVE SaveLoop(_, _, _, _, _)
SaveLoop(objs, keys, indexes, start_index, step) ==
    IF indexes = <<>> THEN [objects |-> objs, raised |-> FALSE]
    ELSE IF Head(indexes) \notin keys THEN [objects |-> objs, raised |-> TRUE]
    ELSE SaveLoop([objs EXCEPT ![Head(indexes)] = Some(start_index)], keys,
                  Tail(indexes), start_index + step, step)

\* The body of do_sorting_view: the rows after the call and the response.
\*   "true" / "false"   {'objects_sorted': True / False}
\*   "error"            an exception leaves the view: the except clause sets no
\*                      response (UnboundLocalError), or min()/max() of no rows
\*                      raises ValueError
\* klass is the model the content type id of the URL names; objs are its rows.
DoSorting(objs, descending, is_ajax, method, indexes) ==
    IF ~IsAjaxPost(is_ajax, method) THEN [objects |-> objs, response |-> "false"]
    ELSE IF indexes = None THEN [objects |-> objs, response |-> "error"]
    ELSE LET keys == DOMAIN objs \cap Range(indexes[1])
             values == {objs[k] : k \in keys}
         IN  IF keys = {} THEN [objects |-> objs, response |-> "error"]
             ELSE LET r == SaveLoop(objs, keys, indexes[1],
                                    StartIndex(descending, values, Len(indexes[1])),
                                    Step(descending))
                  IN  [objects |-> r.objects,
                       response |-> IF r.raised THEN "error" ELSE "true"]

InRange(objs) ==
    \A k \in DOMAIN objs : IF objs[k] = None THEN TRUE ELSE objs[k][1] \in OrderRange

\* A row is added to the model (outside the admin views modelled here).
CreateObject(pk, order) ==
    /\ Idle
    /\ pk \notin DOMAIN objects
    /\ objects' = [k \in DOMAIN objects \cup {pk} |->
                      IF k = pk THEN order ELSE objects[k]]
    /\ sortCall' = NoSortCall
    /\ UNCHANGED <<desc, change_list_template, is_sortable, inflight>>

\* A row is deleted.
DeleteObject(pk) ==
    /\ Idle
    /\ pk \in DOMAIN objects
    /\ objects' = [k \in DOMAIN objects \ {pk} |-> objects[k]]
    /\ sortCall' = NoSortCall
    /\ UNCHANGED <<desc, change_list_template, is_sortable, inflight>>

do_sorting_view(is_ajax, method, indexes) ==
    LET r == DoSorting(objects, desc, is_ajax, method, indexes)
    IN  /\ Idle
        /\ InRange(r.objects)
        /\ objects' = r.objects
        /\ sortCall' = [op |-> "do_sorting_view", is_ajax |-> is_ajax,
                        method |-> method,
                        indexes |-> indexes, response |-> r.response,
                        before |-> objects, template |-> "default"]
        /\ UNCHANGED <<desc, change_list_template, is_sortable, inflight>>

PostedIndexes == {None} \cup {Some(s) : s \in SeqsUpTo(Pks, MaxLen) \ {<<>>}}

\* get_is_sortable(self.queryset(request)): the model has more than one object.
get_is_sortable(objs) == Cardinality(DOMAIN objs) > 1

\* SortableAdminBase.changelist_view: the attributes are set on the admin
\* instance when the queryset is sortable and are left as they are otherwise;
\* the change list is then rendered with self.change_list_template.
changelist_view ==
    LET sortable == get_is_sortable(objects)
        template == IF sortable THEN "change_list_with_sort_link"
                    ELSE change_list_template
    IN  /\ Idle
        /\ change_list_template' = template
        /\ is_sortable' = IF sortable THEN TRUE ELSE is_sortable
        /\ sortCall' = [NoSortCall EXCEPT !.op = "changelist_view",
                                          !.template = template]
        /\ UNCHANGED <<objects, desc, inflight>>

\* do_sorting_view served by two workers at once.  The view opens no
\* transaction and takes no lock, so each request is a sequence of database
\* statements that the other request's statements may fall between: the SELECT
\* that fills objects_dict, then one UPDATE per obj.save().
Workers == {1, 2}

NewRequest(indexes) ==
    [pc |-> "fetch", indexes |-> indexes, keys |-> {}, rest |-> indexes,
     start_index |-> 0, response |-> "none"]

\* objects_dict = dict(... klass.objects.filter(pk__in=indexes)); the start
\* index is then computed from the rows as they were read.
FetchObjects(w) ==
    LET r == inflight.requests[w]
        keys == DOMAIN objects \cap Range(r.indexes)
        values == {objects[k] : k \in keys}
    IN  /\ r.pc = "fetch"
        /\ inflight' = [inflight EXCEPT !.requests[w] =
              IF keys = {} THEN [r EXCEPT !.pc = "done", !.response = "error"]
              ELSE [r EXCEPT !.pc = "save", !.keys = keys,
                             !.start_index =
                                 StartIndex(desc, values, Len(r.indexes))]]
        /\ UNCHANGED <<objects, desc, change_list_template, is_sortable, sortCall>>

\* One turn of the loop: the next posted row gets start_index and is saved; the
\* view answers after the last one.
SaveObject(w) ==
    LET r == inflight.requests[w]
        saved == SaveLoop(objects, r.keys, <<Head(r.rest)>>, r.start_index, Step(desc))
    IN  /\ r.pc = "save"
        /\ objects' = saved.objects
        /\ inflight' = [inflight EXCEPT !.requests[w] =
              IF saved.raised THEN [r EXCEPT !.pc = "done", !.response = "error"]
              ELSE [r EXCEPT !.rest = Tail(r.rest),
                             !.start_index = r.start_index + Step(desc),
                             !.pc = IF Tail(r.rest) = <<>> THEN "done" ELSE "save",
                             !.response = IF Tail(r.rest) = <<>> THEN "true"
                                          ELSE "none"]]
        /\ UNCHANGED <<desc, change_list_template, is_sortable, sortCall>>

\* Posted 'indexes' that list distinct keys.
DistinctIndexes == {s \in SeqsUpTo(Pks, MaxLen) \ {<<>>} : NoDup(s)}

----------------------------------------------------------------------------
(* The translatable admin: translations of master objects *)

Masters == 1..MaxMaster
Langs == {"en", "de", "fr"}
Titles == 1..MaxTitle

LangNo(l) == CASE l = "en" -> 1 [] l = "de" -> 2 [] OTHER -> 3

\* The primary key of the translation row of master m in language l: distinct
\* from every master's primary key.
TransPk(m, l) == 10 * m + LangNo(l)

\* A translation object: a row of the translations model.
Translation(m, l, t) == [id |-> TransPk(m, l), master |-> m, language_code |-> l, title |-> t]

\* The rows of a master: language_code -> title.
TranslationSets == UNION {[ls -> Titles] : ls \in SUBSET Langs}

NoTransCall ==
    [op |-> "none", method |-> "GET", POST |-> FALSE, object_id |-> 0,
     language_code |-> "", has_delete_permission |-> FALSE, perms_needed |-> FALSE,
     has_change_permission |-> FALSE, outcome |-> "none", before |-> <<>>,
     instance |-> None, language |-> "", cached |-> None, initial |-> None,
     fields |-> {}, derived |-> <<>>, form_initial |-> <<>>]

TransIdle == transCall.op = "none"

\* The view returns; the admin waits for the next request.
TransRespond ==
    /\ ~TransIdle
    /\ transCall' = NoTransCall
    /\ UNCHANGED translations

\* translations_model.objects.get(master__pk=object_id, language_code=language_code)
\* finds a row.
HasTranslation(trs, object_id, language_code) ==
    /\ object_id \in DOMAIN trs
    /\ language_code \in DOMAIN trs[object_id]

\* self.get_available_languages(obj.master)
get_available_languages(trs, m) == DOMAIN trs[m]

\* len(self.get_available_languages(obj.master)) <= 1
OnlyTranslationOffByOne(langs) == Cardinality(langs) < 1
OnlyTranslation(langs) == Cardinality(langs) <= 1

\* if request.POST: if perms_needed: raise PermissionDenied
ConfirmedDenialDropped(POST, perms_needed) == FALSE
ConfirmedDenied(POST, perms_needed) == POST /\ perms_needed

\* delete_model_translation: obj.delete()
delete_model_translation(trs, m, l) ==
    [trs EXCEPT ![m] = [k \in DOMAIN trs[m] \ {l} |-> trs[m][k]]]

\* The body of delete_translation: the rows after the call and how it ended.
\* request.POST is the truth value of request.POST (the request carries POST
\* data); has_delete_permission, perms_needed (non-empty) and
\* has_change_permission are what Django's permission checks answer for the
\* request's user.  The LogEntry row and the user message of a deletion are not
\* part of the state.
DeleteTranslation(trs, request, object_id, language_code) ==
    IF ~HasTranslation(trs, object_id, language_code)
    THEN [translations |-> trs, outcome |-> "Http404"]
    ELSE IF ~request.has_delete_permission
    THEN [translations |-> trs, outcome |-> "PermissionDenied"]
    ELSE IF OnlyTranslation(get_available_languages(trs, object_id))
    THEN [translations |-> trs, outcome |-> "deletion_not_allowed"]
    ELSE IF ConfirmedDenied(request.POST, request.perms_needed)
    THEN [translations |-> trs, outcome |-> "PermissionDenied"]
    ELSE IF request.POST
    THEN [translations |-> delete_model_translation(trs, object_id, language_code),
          outcome |-> IF request.has_change_permission THEN "redirect_changelist"
                      ELSE "redirect_index"]
    ELSE [translations |-> trs, outcome |-> "delete_confirmation"]

delete_translation(request, object_id, language_code) ==
    LET r == DeleteTranslation(translations, request, object_id, language_code)
    IN  /\ TransIdle
        /\ translations' = r.translations
        /\ transCall' = [NoTransCall EXCEPT
                            !.op = "delete_translation", !.method = request.method,
                            !.POST = request.POST, !.object_id = object_id,
                            !.language_code = language_code,
                            !.has_delete_permission = request.has_delete_permission,
                            !.perms_needed = request.perms_needed,
                            !.has_change_permission = request.has_change_permission,
                            !.outcome = r.outcome, !.before = translations]

\* The requests of delete_translation: only a POST request carries POST data.
DeleteRequests ==
    {r \in [method : {"GET", "POST"}, POST : BOOLEAN, has_delete_permission : BOOLEAN,
            perms_needed : BOOLEAN, has_change_permission : BOOLEAN] :
        r.POST => r.method = "POST"}

\* get_translation(instance, language): the row of that language, None when
\* the lookup raises DoesNotExist.
get_translation(trs, m, language) ==
    IF language \in DOMAIN trs[m]
    THEN Some(Translation(m, language, trs[m][language]))
    ELSE None

\* not (not trans or trans.language_code != language): the cached translation
\* is kept.
KeepCachedAnyLanguage(cached, language) == cached # None
KeepCached(cached, language) ==
    IF cached = None THEN FALSE ELSE cached[1].language_code = language

\* model_to_dict(trans, opts.fields, opts.exclude) with the id swapped from the
\* translation's to the master's.
ObjectData(trans, fields) ==
    [f \in fields |-> IF f = "id" THEN trans.master ELSE trans[f]]

\* The translation-derived object_data of InlineModelForm.__init__ (lines 45-58).
DerivedData(trs, instance, language, cached, fields) ==
    IF instance = None THEN <<>>
    ELSE LET trans == IF KeepCached(cached, language) THEN cached
                      ELSE get_translation(trs, instance[1], language)
         IN  IF trans = None THEN <<>> ELSE ObjectData(trans[1], fields)

\* InlineModelForm.__init__: instance is None or a master, language the form's
\* language, cached what get_cached_translation(instance) returns, initial the
\* caller's initial data, fields the form's fields.
InlineModelForm(instance, language, cached, initial, fields) ==
    LET derived == DerivedData(translations, instance, language, cached, fields)
    IN  /\ TransIdle
        /\ transCall' = [NoTransCall EXCEPT
                            !.op = "InlineModelForm", !.instance = instance,
                            !.language = language, !.cached = cached,
                            !.initial = initial, !.fields = fields,
                            !.derived = derived,
                            !.form_initial = IF initial = None THEN derived
                                             ELSE DictUpdate(derived, initial[1]),
                            !.before = translations]
        /\ UNCHANGED translations

\* What get_cached_translation(instance) may return for master m: nothing, or
\* a translation object of m in some language (a row, or one not saved yet).
CachedOf(m) == {None} \cup {Some(Translation(m, l, t)) : l \in Langs, t \in Titles}

FormFields == {{"title"}, {"id", "title", "language_code"}}
Initials == {None} \cup {Some([title |-> t]) : t \in Titles}

----------------------------------------------------------------------------
(* TranslatableModelAdminMixin, get_form and queryset *)

LanguageName(code) ==
    CASE code = "en" -> "English" [] code = "de" -> "German" [] OTHER -> "French"

\* settings.LANGUAGES: (code, name) pairs, no code twice.
LanguageLists ==
    {[i \in 1..Len(codes) |-> <<codes[i], LanguageName(codes[i])>>] :
        codes \in {c \in SeqsUpTo(Langs, Cardinality(Langs)) : c # <<>> /\ NoDup(c)}}

DefaultSettings ==
    [LANGUAGES |-> <<<<"en", "English">>, <<"de", "German">>>>,
     FALLBACK_LANGUAGES |-> <<"en", "de">>]

\* A request: its query string (request.GET, key -> value), request.is_secure()
\* and the language get_language() answers while it is served.
QueryStrings ==
    UNION {[ks -> Langs \cup {"xx"}] : ks \in SUBSET {"language", "q"}}
Requests == [GET : QueryStrings, secure : BOOLEAN, active : Langs]

NoRequest == [GET |-> <<>>, secure |-> FALSE, active |-> "en"]
NoAdminCall == [op |-> "none", request |-> NoRequest, args |-> <<>>, result |-> <<>>]

AdminIdle == adminCall.op = "none"

\* The method returns; the admin waits for the next call.
AdminRespond ==
    /\ ~AdminIdle
    /\ adminCall' = NoAdminCall
    /\ UNCHANGED settings

\* request.GET.get(self.query_language_key, get_language())
Language(request) ==
    IF "language" \in DOMAIN request.GET THEN request.GET["language"]
    ELSE request.active

\* dict(request.GET): every value of the QueryDict becomes a list.
PyStr(v) == [kind |-> "str", v |-> v]
PyList(v) == [kind |-> "list", v |-> v]
DictOfQueryDict(GET) == [k \in DOMAIN GET |-> PyList(GET[k])]

\* urllib.urlencode(get): a string is quoted as it is, a list as its str().
UrlEncode(get) ==
    [k \in DOMAIN get |-> IF get[k].kind = "list"
                          THEN "%5Bu%27" \o get[k].v \o "%27%5D"
                          ELSE get[k].v]

\* if language == key: 'current' elif key in available_languages: 'available'
\* else: 'empty'
TabStatusAvailableFirst(language, key, available_languages) ==
    IF key \in available_languages THEN "available"
    ELSE IF language = key THEN "current"
    ELSE "empty"
TabStatus(language, key, available_languages) ==
    IF language = key THEN "current"
    ELSE IF key \in available_languages THEN "available"
    ELSE "empty"

\* get_language_tabs: one (url, name, key, status) per entry of LANGUAGES.
LanguageTabs(LANGUAGES, request, available_languages) ==
    LET get0 == DictOfQueryDict(request.GET)
        language == Language(request)
        Tab(entry) ==
            LET key == entry[1]
                get == DictUpdate(get0, [language |-> PyStr(key)])
            IN  [url |-> [scheme |-> IF request.secure THEN "https" ELSE "http",
                          host |-> "host", path |-> "/path/",
                          query |-> UrlEncode(get)],
                 name |-> entry[2],
                 key |-> key,
                 status |-> TabStatus(language, key, available_languages)]
    IN  [i \in 1..Len(LANGUAGES) |-> Tab(LANGUAGES[i])]

get_language_tabs(request, available_languages) ==
    /\ AdminIdle
    /\ adminCall' = [op |-> "get_language_tabs", request |-> request,
                     args |-> available_languages,
                     result |-> LanguageTabs(settings.LANGUAGES, request,
                                             available_languages)]
    /\ UNCHANGED settings

\* for lang in FALLBACK_LANGUAGES: if not lang in languages: languages.append(lang)
RECURSIVE AppendFallbacksAll(_, _)
AppendFallbacksAll(languages, fallbacks) ==
    IF fallbacks = <<>> THEN languages
    ELSE AppendFallbacksAll(Append(languages, Head(fallbacks)), Tail(fallbacks))
RECURSIVE AppendFallbacks(_, _)
AppendFallbacks(languages, fallbacks) ==
    IF fallbacks = <<>> THEN languages
    ELSE AppendFallbacks(IF Head(fallbacks) \in Range(languages) THEN languages
                         ELSE Append(languages, Head(fallbacks)),
                         Tail(fallbacks))

\* TranslatableAdmin.queryset: the languages handed to use_fallbacks and the
\* fields handed to order_by (none when the admin's ordering is None or empty).
queryset(request, ordering) ==
    /\ AdminIdle
    /\ adminCall' = [op |-> "queryset", request |-> request, args |-> ordering,
                     result |-> [languages |->
                                    AppendFallbacks(<<Language(request)>>,
                                                    settings.FALLBACK_LANGUAGES),
                                 order_by |-> ordering]]
    /\ UNCHANGED settings

\* kwargs.get("exclude", [])
KwGet(kwargs, key, default) == IF key \in DOMAIN kwargs THEN kwargs[key] ELSE default

\* The keyword arguments get_form hands to translatable_modelform_factory.
\* exclude is None or a list (Some); every value of the dictionaries is a list
\* of names, None and the empty list of 'fields' are not told apart.
FormDefaults(admin_exclude, declared_fieldsets, readonly_fields, kwargs) ==
    LET exclude == (IF admin_exclude = None THEN <<>> ELSE admin_exclude[1])
                      \o KwGet(kwargs, "exclude", <<>>)
                      \o readonly_fields
                      \o <<"language_code">>
        defaults == [form |-> <<"form">>,
                     fields |-> declared_fieldsets,
                     exclude |-> exclude,
                     formfield_callback |-> <<"formfield_for_dbfield">>]
    IN  DictUpdate(defaults, kwargs)

\* TranslatableAdmin.get_form and TranslatableInlineModelAdmin.get_form
get_form(op, request, admin_exclude, declared_fieldsets, readonly_fields, kwargs) ==
    /\ AdminIdle
    /\ adminCall' = [op |-> op, request |-> request,
                     args |-> [exclude |-> admin_exclude,
                               declared_fieldsets |-> declared_fieldsets,
                               readonly_fields |-> readonly_fields,
                               kwargs |-> kwargs],
                     result |-> [language |-> Language(request),
                                 defaults |-> FormDefaults(admin_exclude,
                                                 declared_fieldsets,
                                                 readonly_fields, kwargs)]]
    /\ UNCHANGED settings

AdminExcludes == {None, Some(<<>>), Some(<<"slug">>)}
Fieldsets == {<<>>, <<"title", "slug">>}
ReadonlyFields == {<<>>, <<"slug">>}
\* The caller's keyword arguments: any of 'exclude' and 'fields'.
Kwargs ==
    UNION {[ks -> {<<>>, <<"title">>, <<"title", "language_code">>}] :
              ks \in SUBSET {"exclude", "fields"}}
Orderings == {<<>>, <<"order", "id">>}

----------------------------------------------------------------------------
(* Specifications *)

InitSortable ==
    /\ objects = <<>>
    /\ desc \in BOOLEAN
    /\ change_list_template = "default"
    /\ is_sortable = FALSE
    /\ sortCall = NoSortCall
    /\ inflight = <<>>

InitSortIdle ==
    /\ objects = <<>>
    /\ desc = FALSE
    /\ change_list_template = "default"
    /\ is_sortable = FALSE
    /\ sortCall = NoSortCall
    /\ inflight = <<>>

InitTransIdle ==
    /\ translations = <<>>
    /\ transCall = NoTransCall

InitAdminIdle ==
    /\ settings = DefaultSettings
    /\ adminCall = NoAdminCall

InitSort == InitSortable /\ InitTransIdle /\ InitAdminIdle

NextSort ==
    \/ Idle /\ \E pk \in Pks, order \in NewOrders :
          CreateObject(pk, order) /\ UNCHANGED <<transVars, adminVars>>
    \/ Idle /\ \E pk \in Pks : DeleteObject(pk) /\ UNCHANGED <<transVars, adminVars>>
    \/ Idle /\ \E is_ajax \in BOOLEAN, method \in {"GET", "POST"}, indexes \in PostedIndexes :
          do_sorting_view(is_ajax, method, indexes)
             /\ UNCHANGED <<transVars, adminVars>>
    \/ Respond /\ UNCHANGED <<transVars, adminVars>>

SpecSort == InitSort /\ [][NextSort]_vars

NextChangelist ==
    \/ Idle /\ \E pk \in Pks, order \in NewOrders :
          CreateObject(pk, order) /\ UNCHANGED <<transVars, adminVars>>
    \/ Idle /\ \E pk \in Pks : DeleteObject(pk) /\ UNCHANGED <<transVars, adminVars>>
    \/ changelist_view /\ UNCHANGED <<transVars, adminVars>>
    \/ Respond /\ UNCHANGED <<transVars, adminVars>>

SpecChangelist == InitSort /\ [][NextChangelist]_vars

\* Two AJAX POSTs naming the same rows, in any two sequences, arrive together.
InitConcurrent ==
    /\ objects \in [Pks -> NewOrders]
    /\ desc \in BOOLEAN
    /\ change_list_template = "default"
    /\ is_sortable = FALSE
    /\ sortCall = NoSortCall
    /\ \E a, b \in DistinctIndexes :
          /\ Range(a) = Range(b)
          /\ inflight = [start |-> objects,
                         requests |-> <<NewRequest(a), NewRequest(b)>>]
    /\ InitTransIdle /\ InitAdminIdle

NextConcurrent ==
    \/ \E w \in Workers : FetchObjects(w) /\ UNCHANGED <<transVars, adminVars>>
    \/ \E w \in Workers : SaveObject(w) /\ UNCHANGED <<transVars, adminVars>>

SpecConcurrent == InitConcurrent /\ [][NextConcurrent]_vars

InitTranslations ==
    /\ translations \in [Masters -> TranslationSets \ {<<>>}]
    /\ transCall = NoTransCall

InitTrans == InitTranslations /\ InitSortIdle /\ InitAdminIdle

NextTrans ==
    \/ TransIdle /\ \E request \in DeleteRequests, object_id \in 1..(MaxMaster + 1),
                       language_code \in Langs :
          delete_translation(request, object_id, language_code)
             /\ UNCHANGED <<sortVars, adminVars>>
    \/ TransRespond /\ UNCHANGED <<sortVars, adminVars>>

SpecTrans == InitTrans /\ [][NextTrans]_vars

NextInline ==
    \/ TransIdle /\ \E m \in Masters, language \in Langs, initial \in Initials,
          fields \in FormFields : \E cached \in CachedOf(m) :
          InlineModelForm(Some(m), language, cached, initial, fields)
             /\ UNCHANGED <<sortVars, adminVars>>
    \/ TransIdle /\ \E language \in Langs, initial \in Initials, fields \in FormFields :
          InlineModelForm(None, language, None, initial, fields)
             /\ UNCHANGED <<sortVars, adminVars>>
    \/ TransRespond /\ UNCHANGED <<sortVars, adminVars>>

SpecInline == InitTrans /\ [][NextInline]_vars

InitForm ==
    /\ settings = DefaultSettings
    /\ adminCall = NoAdminCall
    /\ InitSortIdle /\ InitTransIdle

NextForm ==
    \/ AdminIdle /\ \E request \in Requests, admin_exclude \in AdminExcludes,
          declared_fieldsets \in Fieldsets, readonly_fields \in ReadonlyFields,
          kwargs \in Kwargs :
          get_form("TranslatableAdmin.get_form", request, admin_exclude,
                   declared_fieldsets, readonly_fields, kwargs)
             /\ UNCHANGED <<sortVars, transVars>>
    \/ AdminIdle /\ \E request \in Requests, admin_exclude \in AdminExcludes,
          declared_fieldsets \in Fieldsets, readonly_fields \in ReadonlyFields,
          kwargs \in Kwargs :
          get_form("TranslatableInlineModelAdmin.get_form", request, admin_exclude,
                   declared_fieldsets, readonly_fields, kwargs)
             /\ UNCHANGED <<sortVars, transVars>>
    \/ AdminRespond /\ UNCHANGED <<sortVars, transVars>>

SpecForm == InitForm /\ [][NextForm]_vars

InitTabs ==
    /\ settings \in [LANGUAGES : LanguageLists,
                     FALLBACK_LANGUAGES : {DefaultSettings.FALLBACK_LANGUAGES}]
    /\ adminCall = NoAdminCall
    /\ InitSortIdle /\ InitTransIdle

NextTabs ==
    \/ AdminIdle /\ \E request \in Requests, available_languages \in SUBSET Langs :
          get_language_tabs(request, available_languages)
             /\ UNCHANGED <<sortVars, transVars>>
    \/ AdminRespond /\ UNCHANGED <<sortVars, transVars>>

SpecTabs == InitTabs /\ [][NextTabs]_vars

InitQueryset ==
    /\ settings \in [LANGUAGES : {DefaultSettings.LANGUAGES},
                     FALLBACK_LANGUAGES : SeqsUpTo(Langs, MaxFallback)]
    /\ adminCall = NoAdminCall
    /\ InitSortIdle /\ InitTransIdle

NextQueryset ==
    \/ AdminIdle /\ \E request \in Requests, ordering \in Orderings :
          queryset(request, ordering) /\ UNCHANGED <<sortVars, transVars>>
    \/ AdminRespond /\ UNCHANGED <<sortVars, transVars>>

SpecQueryset == InitQueryset /\ [][NextQueryset]_vars

----------------------------------------------------------------------------
(* Claims about do_sorting_view *)

Posted == sortCall.indexes[1]

\* The last step was an AJAX POST whose 'indexes' lists distinct keys of rows
\* that all existed.
ValidReorder ==
    /\ sortCall.op = "do_sorting_view"
    /\ sortCall.is_ajax /\ sortCall.method = "POST"
    /\ sortCall.indexes # None
    /\ NoDup(Posted)
    /\ Range(Posted) \subseteq DOMAIN sortCall.before

PostedBefore == {sortCall.before[k] : k \in Range(Posted)}
PostedInts == {o[1] : o \in PostedBefore \ {None}}

\* s of the ascending case: the least order the posted rows held, 0 when that is
\* 0 or unset.
AscStart ==
    IF None \in PostedBefore THEN 0
    ELSE CHOOSE v \in PostedInts : \A w \in PostedInts : v <= w

\* s of the descending case: the greatest order the posted rows held, the
\* number of posted keys when that is 0 or unset.
DescStart ==
    IF PostedInts = {} THEN Len(Posted)
    ELSE LET m == CHOOSE v \in PostedInts : \A w \in PostedInts : w <= v
         IN  IF m = 0 THEN Len(Posted) ELSE m

\* C1: on a model ordered ascending, after an AJAX POST of distinct existing
\* keys k1..kn the i-th posted row has order s + (i-1), with s the least order
\* the posted rows held before (0 when that is 0 or unset), and the response is
\* objects_sorted = true.
C1_AscendingReorder ==
    (ValidReorder /\ ~desc) =>
        /\ sortCall.response = "true"
        /\ \A i \in 1..Len(Posted) : objects[Posted[i]] = Some(AscStart + (i - 1))

\* Two rows were reordered upwards from a start other than 0, and a row moved.
C1_Witness ==
    /\ ValidReorder /\ ~desc
    /\ Len(Posted) = 2
    /\ AscStart > 0
    /\ objects # sortCall.before

\* C2: on a model ordered by '-order', after an AJAX POST of distinct existing
\* keys k1..kn the i-th posted row has order s - (i-1), with s the greatest order
\* the posted rows held before (n when that is 0 or unset); the posted rows
\* listed by descending order appear in the posted sequence.
C2_DescendingReorder ==
    (ValidReorder /\ desc) =>
        /\ \A i \in 1..Len(Posted) : objects[Posted[i]] = Some(DescStart - (i - 1))
        /\ \A i, j \in 1..Len(Posted) :
              i < j => objects[Posted[i]][1] > objects[Posted[j]][1]

\* Two rows whose greatest order was 0 or unset were reordered downwards.
C2_Witness ==
    /\ ValidReorder /\ desc
    /\ Len(Posted) = 2
    /\ PostedInts \subseteq {0}
    /\ sortCall.response = "true"
    /\ objects # sortCall.before

\* C3: a request that is not AJAX or not a POST is answered objects_sorted =
\* false and leaves every row's order as it was, whatever 'indexes' it carries.
C3_MustBeAjaxPost ==
    (sortCall.op = "do_sorting_view" /\ ~(sortCall.is_ajax /\ sortCall.method = "POST")) =>
        /\ sortCall.response = "false"
        /\ objects = sortCall.before

\* A POST that is not AJAX named two existing rows in the reverse of their order.
C3_Witness ==
    /\ sortCall.op = "do_sorting_view"
    /\ ~sortCall.is_ajax /\ sortCall.method = "POST"
    /\ sortCall.indexes # None
    /\ Len(Posted) = 2 /\ NoDup(Posted)
    /\ Range(Posted) \subseteq DOMAIN objects
    /\ objects[Posted[1]] = Some(1) /\ objects[Posted[2]] = Some(0)
    /\ sortCall.response = "false"

\* The rows the last request did not name: every row when it carried no
\* 'indexes'.
NotPosted ==
    IF sortCall.indexes = None THEN DOMAIN sortCall.before
    ELSE DOMAIN sortCall.before \ Range(Posted)

\* C11: after any do_sorting_view request, every row whose primary key is not
\* in the posted 'indexes' has the order it had before the request (and no row
\* was added or removed).
C11_OnlyPostedChange ==
    sortCall.op = "do_sorting_view" =>
        /\ DOMAIN objects = DOMAIN sortCall.before
        /\ \A k \in NotPosted : objects[k] = sortCall.before[k]

\* A reorder moved a posted row while a row it did not name held an order
\* other than the one the loop ended on.
C11_Witness ==
    /\ ValidReorder
    /\ sortCall.response = "true"
    /\ objects # sortCall.before
    /\ \E k \in NotPosted :
          \A j \in Range(Posted) : objects[k] # objects[j]

\* All rows hold pairwise distinct order values (an unset order is a value).
Distinct(objs) == \A a, b \in DOMAIN objs : a # b => objs[a] # objs[b]

\* The last step was a successful reorder of distinct existing keys.
SuccessfulReorder == ValidReorder /\ sortCall.response = "true"

\* The order values the loop hands out: s, s+1, .. upwards, or s, s-1, ..
\* downwards for a descending model.
AssignedValues ==
    IF desc THEN {Some(DescStart - (i - 1)) : i \in 1..Len(Posted)}
    ELSE {Some(AscStart + (i - 1)) : i \in 1..Len(Posted)}

\* C12 as stated: a successful reorder of distinct existing keys, possibly a
\* subset of the rows, from a state with pairwise distinct orders ends in a
\* state with pairwise distinct orders.
C12_AsStated ==
    (SuccessfulReorder /\ Distinct(sortCall.before)) => Distinct(objects)

\* C12: a successful reorder of distinct existing keys leaves the posted rows
\* with pairwise distinct orders, and, from a state with pairwise distinct
\* orders, leaves all rows with pairwise distinct orders when no row outside the
\* request held one of the values the request hands out (so whenever the
\* request names every row).
C12_DistinctUnlessCollision ==
    SuccessfulReorder =>
        /\ \A i, j \in 1..Len(Posted) :
              i # j => objects[Posted[i]] # objects[Posted[j]]
        /\ (/\ Distinct(sortCall.before)
            /\ \A k \in NotPosted : sortCall.before[k] \notin AssignedValues)
              => Distinct(objects)

\* Two of three rows with pairwise distinct orders were reordered, the third
\* holding none of the values handed out, and a row moved.
C12_Witness ==
    /\ SuccessfulReorder
    /\ Distinct(sortCall.before)
    /\ Len(Posted) = 2
    /\ NotPosted # {}
    /\ \A k \in NotPosted : sortCall.before[k] \notin AssignedValues
    /\ objects # sortCall.before

----------------------------------------------------------------------------
(* Claims about concurrent do_sorting_view requests *)

BothAnswered == \A w \in Workers : inflight.requests[w].pc = "done"

\* The rows after request first has run to its end and request second after it.
Serial(first, second) ==
    LET one == DoSorting(inflight.start, desc, TRUE, "POST",
                         Some(inflight.requests[first].indexes))
    IN  DoSorting(one.objects, desc, TRUE, "POST",
                  Some(inflight.requests[second].indexes)).objects

\* C13: when two AJAX POSTs over the same rows are served side by side, their
\* reads and saves interleaved in any way, the orders at the end are those of
\* running the two requests one after the other in one of the two sequences.
C13_SerialOutcome ==
    BothAnswered => (objects = Serial(1, 2) \/ objects = Serial(2, 1))

----------------------------------------------------------------------------
(* Claims about changelist_view *)

\* C8: a changelist_view call uses the template with the sort link, and has
\* is_sortable set, if and only if the queryset holds more than one object at
\* the time of the call.
C8_SortLinkIffSortable ==
    sortCall.op = "changelist_view" =>
        ((sortCall.template = "change_list_with_sort_link" /\ is_sortable)
            <=> Cardinality(DOMAIN objects) > 1)

----------------------------------------------------------------------------
(* Claims about InlineModelForm.__init__ *)

FormMaster == transCall.instance[1]

\* The translation the claim names: the cached one if it is in the form's
\* language, otherwise the row of that language, None when there is none.
FormSource ==
    IF (IF transCall.cached = None THEN FALSE
        ELSE transCall.cached[1].language_code = transCall.language)
    THEN transCall.cached
    ELSE IF transCall.language \in DOMAIN translations[FormMaster]
    THEN Some(Translation(FormMaster, transCall.language,
                          translations[FormMaster][transCall.language]))
    ELSE None

\* C5: for an existing instance the translation-derived initial data comes only
\* from the translation in the form's language (the cached one if it is in that
\* language, otherwise the one looked up); it is empty when the instance has no
\* translation in that language; another language's data is never used.
C5_TranslationSelection ==
    (transCall.op = "InlineModelForm" /\ transCall.instance # None) =>
        IF FormSource = None THEN DOMAIN transCall.derived = {}
        ELSE /\ FormSource[1].language_code = transCall.language
             /\ FormSource[1].master = FormMaster
             /\ DOMAIN transCall.derived = transCall.fields
             /\ \A f \in DOMAIN transCall.derived :
                   IF f = "id" THEN transCall.derived[f] = FormMaster
                   ELSE transCall.derived[f] = FormSource[1][f]

\* The cached translation was in another language and held another title than
\* the row of the form's language, whose data the form got.
C5_Witness ==
    /\ transCall.op = "InlineModelForm" /\ transCall.instance # None
    /\ transCall.cached # None
    /\ transCall.cached[1].language_code # transCall.language
    /\ transCall.language \in DOMAIN translations[FormMaster]
    /\ transCall.cached[1].title # translations[FormMaster][transCall.language]
    /\ "language_code" \in DOMAIN transCall.derived
    /\ transCall.derived.title = translations[FormMaster][transCall.language]

----------------------------------------------------------------------------
(* Claims about delete_translation *)

DeleteCall == transCall.op = "delete_translation"

\* The request named a translation that existed.
Named == HasTranslation(transCall.before, transCall.object_id, transCall.language_code)

\* The request was against a master with exactly one available language.
AgainstLast ==
    /\ DeleteCall
    /\ transCall.object_id \in Masters
    /\ Cardinality(DOMAIN transCall.before[transCall.object_id]) = 1

EveryMasterTranslated == \A m \in Masters : DOMAIN translations[m] # {}

\* C6 as stated: every master keeps at least one translation, and every request
\* against a master with exactly one available language takes the
\* deletion-not-allowed path and deletes nothing.
C6_AsStated ==
    /\ EveryMasterTranslated
    /\ AgainstLast =>
          (transCall.outcome = "deletion_not_allowed" /\ translations = transCall.before)

\* C6, amended: every master keeps at least one translation; a request against
\* a master with exactly one available language deletes nothing, and takes the
\* deletion-not-allowed path when it names that translation and
\* has_delete_permission holds, ends in Http404 when it names another language
\* and in PermissionDenied when has_delete_permission does not hold.
C6_LastTranslationKept ==
    /\ EveryMasterTranslated
    /\ AgainstLast =>
          /\ translations = transCall.before
          /\ (Named /\ transCall.has_delete_permission)
                => transCall.outcome = "deletion_not_allowed"
          /\ ~Named => transCall.outcome = "Http404"
          /\ (Named /\ ~transCall.has_delete_permission)
                => transCall.outcome = "PermissionDenied"

\* A confirmed and permitted deletion of a master's only translation was refused.
C6_Witness ==
    /\ AgainstLast /\ Named
    /\ transCall.POST /\ transCall.has_delete_permission /\ ~transCall.perms_needed
    /\ transCall.outcome = "deletion_not_allowed"
    /\ translations = transCall.before

Unchanged == translations = transCall.before

\* The master of the request has more than one available language.
Several == Cardinality(DOMAIN transCall.before[transCall.object_id]) > 1

\* C7 as stated: a translation is deleted only with POST data, delete permission
\* and empty perms_needed; a request without POST data renders the confirmation
\* page; one without delete permission, or with a POST and non-empty
\* perms_needed, ends in PermissionDenied; one naming no translation ends in
\* Http404; none of these deletes anything.
C7_AsStated ==
    DeleteCall =>
        /\ ~Unchanged => (transCall.POST /\ transCall.has_delete_permission
                            /\ ~transCall.perms_needed)
        /\ (Named /\ transCall.has_delete_permission /\ ~transCall.POST)
              => (transCall.outcome = "delete_confirmation" /\ Unchanged)
        /\ (Named /\ (~transCall.has_delete_permission
                        \/ (transCall.POST /\ transCall.perms_needed)))
              => (transCall.outcome = "PermissionDenied" /\ Unchanged)
        /\ ~Named => (transCall.outcome = "Http404" /\ Unchanged)

\* C7, amended: as stated, except that the confirmation page (no POST data) and
\* the PermissionDenied of a POST with non-empty perms_needed are reached only
\* when the master has more than one available language; with exactly one, a
\* request that names the translation and has delete permission gets the
\* deletion-not-allowed page.  A deletion removes exactly the named translation.
C7_DeleteOnlyConfirmedAndPermitted ==
    DeleteCall =>
        /\ ~Unchanged =>
              /\ transCall.POST /\ transCall.has_delete_permission
              /\ ~transCall.perms_needed
              /\ Named
              /\ translations = delete_model_translation(
                    transCall.before, transCall.object_id, transCall.language_code)
        /\ (Named /\ transCall.has_delete_permission /\ Several /\ ~transCall.POST)
              => (transCall.outcome = "delete_confirmation" /\ Unchanged)
        /\ (Named /\ ~transCall.has_delete_permission)
              => (transCall.outcome = "PermissionDenied" /\ Unchanged)
        /\ (Named /\ transCall.has_delete_permission /\ Several
                  /\ transCall.POST /\ transCall.perms_needed)
              => (transCall.outcome = "PermissionDenied" /\ Unchanged)
        /\ (Named /\ transCall.has_delete_permission /\ ~Several)
              => (transCall.outcome = "deletion_not_allowed" /\ Unchanged)
        /\ ~Named => (transCall.outcome = "Http404" /\ Unchanged)

\* A confirmed, permitted request deleted one of several translations.
C7_Witness ==
    /\ DeleteCall /\ Named
    /\ transCall.POST /\ transCall.has_delete_permission /\ ~transCall.perms_needed
    /\ ~Unchanged
    /\ transCall.language_code \notin DOMAIN translations[transCall.object_id]

----------------------------------------------------------------------------
(* Claims about get_form, get_language_tabs and queryset *)

\* The request's language: the 'language' query parameter if present,
\* otherwise the active language.
RequestLanguage ==
    IF "language" \in DOMAIN adminCall.request.GET
    THEN adminCall.request.GET["language"]
    ELSE adminCall.request.active

\* C4: whatever the request, the admin's exclude, the read-only fields and the
\* caller's keyword arguments, 'language_code' is in the exclude list get_form
\* hands to translatable_modelform_factory.
C4_LanguageCodeExcluded ==
    adminCall.op \in {"TranslatableAdmin.get_form",
                      "TranslatableInlineModelAdmin.get_form"} =>
        "language_code" \in Range(adminCall.result.defaults.exclude)

Tabs == adminCall.result
CurrentTabs == {i \in 1..Len(Tabs) : Tabs[i].status = "current"}

\* C9: get_language_tabs returns one tab per entry of settings.LANGUAGES, in
\* that order, each with a URL whose 'language' parameter is the entry's code;
\* a tab is 'current' iff its code is the request's language, 'available' iff
\* it is not current and its code is in available_languages, 'empty' otherwise;
\* at most one tab is current, exactly one when the request's language is
\* configured.
C9_LanguageTabs ==
    adminCall.op = "get_language_tabs" =>
        /\ Len(Tabs) = Len(settings.LANGUAGES)
        /\ \A i \in 1..Len(Tabs) :
              LET code == settings.LANGUAGES[i][1]
                  current == code = RequestLanguage
                  available == ~current /\ code \in adminCall.args
              IN  /\ Tabs[i].key = code
                  /\ Tabs[i].name = settings.LANGUAGES[i][2]
                  /\ Tabs[i].url.query["language"] = code
                  /\ Tabs[i].status = "current" <=> current
                  /\ Tabs[i].status = "available" <=> available
                  /\ Tabs[i].status = "empty" <=> (~current /\ ~available)
        /\ Cardinality(CurrentTabs) <= 1
        /\ (\E i \in 1..Len(Tabs) : settings.LANGUAGES[i][1] = RequestLanguage)
              => Cardinality(CurrentTabs) = 1

\* Three tabs, one of each status; the current one is the query parameter's
\* language, which differs from the active language and is also available.
C9_Witness ==
    /\ adminCall.op = "get_language_tabs"
    /\ "language" \in DOMAIN adminCall.request.GET
    /\ RequestLanguage # adminCall.request.active
    /\ RequestLanguage \in adminCall.args
    /\ Len(Tabs) = 3
    /\ {Tabs[i].status : i \in 1..Len(Tabs)} = {"current", "available", "empty"}

Handed == adminCall.result.languages

FirstIndex(seq, x) ==
    CHOOSE k \in 1..Len(seq) : seq[k] = x /\ \A j \in 1..(k - 1) : seq[j] # x

\* C10: the languages handed to use_fallbacks start with the request's
\* language, followed by the entries of FALLBACK_LANGUAGES in their order, and
\* hold no language twice.
C10_FallbackLanguages ==
    adminCall.op = "queryset" =>
        /\ Handed[1] = RequestLanguage
        /\ NoDup(Handed)
        /\ Range(Handed) = {RequestLanguage} \cup Range(settings.FALLBACK_LANGUAGES)
        /\ \A i, j \in 2..Len(Handed) :
              i < j => FirstIndex(settings.FALLBACK_LANGUAGES, Handed[i])
                          < FirstIndex(settings.FALLBACK_LANGUAGES, Handed[j])

\* The query parameter's language, not the active one, is a later entry of
\* three distinct fallback languages: it leads the list and is not repeated.
C10_Witness ==
    /\ adminCall.op = "queryset"
    /\ "language" \in DOMAIN adminCall.request.GET
    /\ RequestLanguage # adminCall.request.active
    /\ Len(settings.FALLBACK_LANGUAGES) = 3
    /\ NoDup(settings.FALLBACK_LANGUAGES)
    /\ settings.FALLBACK_LANGUAGES[3] = RequestLanguage
    /\ Len(Handed) = 3

=============================================================================
